---- MODULE Spec2Model ----
(***************************************************************************)
(* Model of crates/fluvio-hub-protocol/src/infinyon_tok.rs: resolution of  *)
(* the current login token from the multi-org helper (fluvio-cloud-v4),    *)
(* the INFINYON_CONFIG_PATH override and the legacy `logins/current`       *)
(* indirection.                                                            *)
(*                                                                         *)
(* Texts (file contents, paths) are sequences of string tokens.  A result  *)
(* is a record [tag, token, remote, msg]: tag "Ok", "Read" (the Read error *)
(* variant), "Parse" (UnableToParseCredentials) or "Panic" (the call       *)
(* unwinds).                                                               *)
(***************************************************************************)
EXTENDS Integers, Sequences, FiniteSets, TLC

VARIABLES fs, envvar, helper, last, prev

vars == <<fs, envvar, helper, last, prev>>

(* ---------------------------- bounds ----------------------------------- *)

\* number of organizations the helper may report
MaxOrgs == 2

(* --------------------------- constants --------------------------------- *)

INFINYON_CONFIG_PATH_ENV == "INFINYON_CONFIG_PATH"
CURRENT_LOGIN_FILE_NAME == <<"current">>
LOGIN_BIN == "fluvio-cloud-v4"

ReadMsg == "no access credentials, try 'fluvio cloud login'"
ExecMsg == "failed to execute v4"
ParseMsg == "unable to parse credentials"
NoOrgMsg == "no org access token found, please login or switch to an org with 'fluvio cloud org switch'"
UnwrapMsg == "called Result::unwrap() on an Err value"

\* home_dir()/CLI_CONFIG_PATH/logins, as one path
default_file_path == <<"~/.fluvio/config", "/", "logins">>

(* ---------------------------- results ---------------------------------- *)

Ok(token, remote) == [tag |-> "Ok", token |-> token, remote |-> remote, msg |-> ""]
ErrRead(m) == [tag |-> "Read", token |-> "", remote |-> "", msg |-> m]
ErrParse == [tag |-> "Parse", token |-> "", remote |-> "", msg |-> ParseMsg]
Panic(m) == [tag |-> "Panic", token |-> "", remote |-> "", msg |-> m]

\* what a call did: its result, the files it read (in order), whether it
\* spawned the helper
Done(out, reads, spawned) == [out |-> out, reads |-> reads, spawned |-> spawned]

(* ------------------------------ paths ---------------------------------- *)

IsAbsolute(p) == p # <<>> /\ p[1] = "/"

\* Path::join: an absolute argument replaces the base, anything else is
\* appended after a separator
Join(base, rel) == IF IsAbsolute(rel) THEN rel ELSE base \o <<"/">> \o rel

\* fs::read_to_string: the file's text, or an error when there is no such file
FileExists(files, path) == path \in DOMAIN files

(* --------------------------- Credentials ------------------------------- *)

CredentialFields == {"remote", "email", "id", "token"}

\* a text read as `key value key value ...`
KeyPositions(text) == {i \in 1..Len(text) : i % 2 = 1}
KeysOf(text) == {text[i] : i \in KeyPositions(text)}
ValueOf(text, key) == text[(CHOOSE i \in KeyPositions(text) : text[i] = key) + 1]

\* toml::from_str::<Credentials>: every field of the struct is required,
\* a key may not be defined twice, other keys are ignored
TomlParses(text) ==
    /\ Len(text) % 2 = 0
    /\ Cardinality(KeysOf(text)) = Len(text) \div 2
    /\ CredentialFields \subseteq KeysOf(text)

TomlFromStr(text) == [f \in CredentialFields |-> ValueOf(text, f)]

NoCred == [f \in CredentialFields |-> ""]

Loaded(tag, cred, msg, reads) == [tag |-> tag, cred |-> cred, msg |-> msg, reads |-> reads]

\* Credentials::load with the Read error replaced by falling through to the parse
Credentials_load_ParseOnMissing(files, cred_path) ==
    IF FileExists(files, cred_path) /\ TomlParses(files[cred_path])
    THEN Loaded("Ok", TomlFromStr(files[cred_path]), "", <<cred_path>>)
    ELSE Loaded("Parse", NoCred, ParseMsg, <<cred_path>>)

Credentials_load(files, cred_path) ==
    IF ~FileExists(files, cred_path)
    THEN Loaded("Read", NoCred, ReadMsg, <<cred_path>>)
    ELSE IF ~TomlParses(files[cred_path])
         THEN Loaded("Parse", NoCred, ParseMsg, <<cred_path>>)
         ELSE Loaded("Ok", TomlFromStr(files[cred_path]), "", <<cred_path>>)

Credentials_try_load(files, base_path) ==
    LET current_login_path == Join(base_path, CURRENT_LOGIN_FILE_NAME) IN
    IF ~FileExists(files, current_login_path)
    THEN Loaded("Read", NoCred, ReadMsg, <<current_login_path>>)
    ELSE LET cfg_path == files[current_login_path]
             cred_path == Join(base_path, cfg_path)
             r == Credentials_load(files, cred_path)
         IN  Loaded(r.tag, r.cred, r.msg, <<current_login_path>> \o r.reads)

\* Result<Credentials, _> mapped by `?` and Ok(f(cred))
TokenOf(r) ==
    IF r.tag = "Ok" THEN Done(Ok(r.cred.token, ""), r.reads, FALSE)
    ELSE Done([tag |-> r.tag, token |-> "", remote |-> "", msg |-> r.msg], r.reads, FALSE)

TokenRemOf(r) ==
    IF r.tag = "Ok" THEN Done(Ok(r.cred.token, r.cred.remote), r.reads, FALSE)
    ELSE Done([tag |-> r.tag, token |-> "", remote |-> "", msg |-> r.msg], r.reads, FALSE)

read_infinyon_token_v3(files) ==
    LET cfgpath == default_file_path IN
    TokenOf(Credentials_try_load(files, cfgpath))

(* ------------------------- the v4 helper ------------------------------- *)

NoTokens == [remote |-> "", user_access_token |-> "", org_access_tokens |-> [k \in {} |-> ""]]

\* serde_json::from_slice::<CliAccessTokens>(&output.stdout)
JsonParses(stdout) == stdout.kind = "doc"

Tokens(tag, tokens, msg, spawned) ==
    [tag |-> tag, tokens |-> tokens, msg |-> msg, spawned |-> spawned]

read_access_tokens(h) ==
    IF h.exec = "ran"
    THEN \* Ok(output), whatever output.status is
         IF JsonParses(h.stdout)
         THEN Tokens("Ok", h.stdout.doc, "", TRUE)
         ELSE Tokens("Panic", NoTokens, UnwrapMsg, TRUE)
    ELSE Tokens("Read", NoTokens, ExecMsg, FALSE)

\* HashMap::keys().next(): None for an empty map, otherwise whichever key the
\* hasher's random state puts first
NoKey == "(none)"
KeysNext(map) == IF DOMAIN map = {} THEN {NoKey} ELSE DOMAIN map

\* get_current_org_token with unwrap_or_default in place of the panic
get_current_org_token_EmptyString(self, first) ==
    IF first \in DOMAIN self.org_access_tokens
    THEN Ok(self.org_access_tokens[first], "")
    ELSE Ok("", "")

get_current_org_token(self, first) ==
    IF first = NoKey
    THEN Panic(NoOrgMsg)
    ELSE IF first \in DOMAIN self.org_access_tokens
         THEN Ok(self.org_access_tokens[first], "")
         ELSE Ok("", "")

\* read_infinyon_token handing the helper's execution error to the caller
read_infinyon_token_NoFallback(files, h, first) ==
    LET r == read_access_tokens(h) IN
    IF r.tag = "Ok"
    THEN Done(get_current_org_token(r.tokens, first), <<>>, r.spawned)
    ELSE IF r.tag = "Panic"
         THEN Done(Panic(r.msg), <<>>, r.spawned)
         ELSE Done(ErrRead(r.msg), <<>>, r.spawned)

\* read_infinyon_token treating an empty organization map as one more
\* helper failure
read_infinyon_token_FallbackOnEmpty(files, h, first) ==
    LET r == read_access_tokens(h) IN
    IF r.tag = "Ok" /\ first # NoKey
    THEN Done(get_current_org_token(r.tokens, first), <<>>, r.spawned)
    ELSE IF r.tag = "Panic"
         THEN Done(Panic(r.msg), <<>>, r.spawned)
         ELSE LET v3 == read_infinyon_token_v3(files) IN
              Done(v3.out, v3.reads, r.spawned)

read_infinyon_token(files, h, first) ==
    LET r == read_access_tokens(h) IN
    IF r.tag = "Ok"
    THEN Done(get_current_org_token(r.tokens, first), <<>>, r.spawned)
    ELSE IF r.tag = "Panic"
         THEN Done(Panic(r.msg), <<>>, r.spawned)
         ELSE \* fallback to old token logic
              LET v3 == read_infinyon_token_v3(files) IN
              Done(v3.out, v3.reads, r.spawned)

(* --------------------- token and remote -------------------------------- *)

\* env::var: Ok only for a variable that is set and valid unicode
EnvVarOk(env) == env.state = "set"

\* read_infinyon_token_rem without the override branch
read_infinyon_token_rem_IgnoreEnv(files, env) ==
    TokenRemOf(Credentials_try_load(files, default_file_path))

\* read_infinyon_token_rem asking the v4 helper first, as read_infinyon_token does
read_infinyon_token_rem_HelperFirst(files, env) ==
    LET r == read_access_tokens(helper) IN
    IF r.tag = "Ok" /\ DOMAIN r.tokens.org_access_tokens # {}
    THEN Done(Ok(r.tokens.org_access_tokens[CHOOSE k \in DOMAIN r.tokens.org_access_tokens : TRUE],
                 r.tokens.remote), <<>>, r.spawned)
    ELSE IF EnvVarOk(env)
         THEN TokenRemOf(Credentials_load(files, env.path))
         ELSE TokenRemOf(Credentials_try_load(files, default_file_path))

\* read_infinyon_token_rem going on to the default directory when the
\* override's file does not load
read_infinyon_token_rem_FallbackOnLoadError(files, env) ==
    LET r == Credentials_load(files, env.path) IN
    IF EnvVarOk(env) /\ r.tag = "Ok"
    THEN TokenRemOf(r)
    ELSE TokenRemOf(Credentials_try_load(files, default_file_path))

read_infinyon_token_rem(files, env) ==
    IF EnvVarOk(env)
    THEN TokenRemOf(Credentials_load(files, env.path))
    ELSE LET cfgpath == default_file_path IN
         TokenRemOf(Credentials_try_load(files, cfgpath))

(* ------------------------- environments -------------------------------- *)

CurrentPath == Join(default_file_path, CURRENT_LOGIN_FILE_NAME)
ProfA == <<"profA.toml">>
ProfB == <<"profB.toml">>
ProfAPath == Join(default_file_path, ProfA)
ProfBPath == Join(default_file_path, ProfB)
OutsidePath == <<"/", "tmp", "/", "cred.toml">>

CredA == <<"remote", "r1", "email", "e", "id", "1", "token", "t1">>
CredB == <<"remote", "r2", "email", "e", "id", "2", "token", "t2">>
CredX == <<"token", "t3", "id", "3", "email", "x", "remote", "r3">>
\* a record without its token field, and a text that is no record at all
Truncated == <<"remote", "r1", "email", "e", "id", "1">>
Garbage == <<"not", "a", "record">>

Absent == <<"(absent)">>

PointerTexts == {ProfA, ProfA \o <<"\n">>, ProfB, OutsidePath, <<>>}

MkFs(ptr, a, b, x) ==
    LET present == {e \in {<<CurrentPath, ptr>>, <<ProfAPath, a>>,
                           <<ProfBPath, b>>, <<OutsidePath, x>>} : e[2] # Absent}
    IN  [p \in {e[1] : e \in present} |-> (CHOOSE e \in present : e[1] = p)[2]]

FileSystems ==
    {MkFs(ptr, a, b, x) : ptr \in PointerTexts \cup {Absent},
                          a \in {Absent, CredA, Truncated},
                          b \in {Absent, CredB},
                          x \in {Absent, CredX, Garbage}}

EnvVars ==
    {[state |-> "unset", path |-> <<>>], [state |-> "not_unicode", path |-> <<>>]}
    \cup {[state |-> "set", path |-> p] : p \in {OutsidePath, ProfAPath}}

OrgNames == <<"org-a", "org-b", "org-c", "org-d">>
OrgTokens == <<"tok-a", "tok-b", "tok-c", "tok-d">>
OrgIndex == 1..MaxOrgs

OrgMap(ids) ==
    LET names == {OrgNames[i] : i \in ids} IN
    [k \in names |-> OrgTokens[CHOOSE i \in ids : OrgNames[i] = k]]

Stdouts ==
    {[kind |-> "empty", doc |-> NoTokens], [kind |-> "garbage", doc |-> NoTokens]}
    \cup {[kind |-> "doc",
           doc |-> [remote |-> "r", user_access_token |-> "u",
                    org_access_tokens |-> OrgMap(ids)]] : ids \in SUBSET OrgIndex}

Helpers ==
    {[exec |-> "spawn_err", status |-> 0, stdout |-> [kind |-> "empty", doc |-> NoTokens]]}
    \cup {[exec |-> "ran", status |-> st, stdout |-> out] : st \in {0, 1}, out \in Stdouts}

(* ----------------------------- calls ----------------------------------- *)

Call(op, d, cli) ==
    [op |-> op, out |-> d.out, reads |-> d.reads, spawned |-> d.spawned, cli |-> cli]

Idle == Call("idle", Done(Ok("", ""), <<>>, FALSE), NoTokens)

Init ==
    /\ fs \in FileSystems
    /\ envvar \in EnvVars
    /\ helper \in Helpers
    /\ last = Idle
    /\ prev = Idle

ReadAccessTokens ==
    LET r == read_access_tokens(helper) IN
    /\ last' = Call("read_access_tokens",
                    Done([tag |-> r.tag, token |-> "", remote |-> "", msg |-> r.msg],
                         <<>>, r.spawned),
                    r.tokens)
    /\ prev' = last
    /\ UNCHANGED <<fs, envvar, helper>>

ReadInfinyonToken ==
    \E first \in KeysNext(read_access_tokens(helper).tokens.org_access_tokens) :
        /\ last' = Call("read_infinyon_token", read_infinyon_token(fs, helper, first), NoTokens)
        /\ prev' = last
        /\ UNCHANGED <<fs, envvar, helper>>

ReadInfinyonTokenV3 ==
    /\ last' = Call("read_infinyon_token_v3", read_infinyon_token_v3(fs), NoTokens)
    /\ prev' = last
    /\ UNCHANGED <<fs, envvar, helper>>

ReadInfinyonTokenRem ==
    /\ last' = Call("read_infinyon_token_rem", read_infinyon_token_rem(fs, envvar), NoTokens)
    /\ prev' = last
    /\ UNCHANGED <<fs, envvar, helper>>

Next ==
    \/ ReadAccessTokens
    \/ ReadInfinyonToken
    \/ ReadInfinyonTokenV3
    \/ ReadInfinyonTokenRem

Spec == Init /\ [][Next]_vars

(* ------------------- vocabulary of the properties ---------------------- *)

IsToken == last.op = "read_infinyon_token"
IsRem == last.op = "read_infinyon_token_rem"
IsV3 == last.op = "read_infinyon_token_v3"
IsAccess == last.op = "read_access_tokens"

HelperRan == helper.exec = "ran"
HelperDoc == HelperRan /\ helper.stdout.kind = "doc"
Orgs == helper.stdout.doc.org_access_tokens

\* what the Legacy Resolver gives on the default base directory
LegacyToken == TokenOf(Credentials_try_load(fs, default_file_path)).out
LegacyTokenRem == TokenRemOf(Credentials_try_load(fs, default_file_path)).out

PointerExists == CurrentPath \in DOMAIN fs
NamedPath == Join(default_file_path, fs[CurrentPath])
NamedExists == PointerExists /\ NamedPath \in DOMAIN fs
NamedParses == NamedExists /\ TomlParses(fs[NamedPath])

OverrideSet == envvar.state = "set"
OverrideExists == OverrideSet /\ envvar.path \in DOMAIN fs
OverrideValid == OverrideExists /\ TomlParses(fs[envvar.path])

InSeq(x, seq) == \E i \in 1..Len(seq) : seq[i] = x

Whitespace == {" ", "\n", "\t"}

RECURSIVE TrimStart(_)
TrimStart(t) == IF t # <<>> /\ t[1] \in Whitespace THEN TrimStart(Tail(t)) ELSE t

RECURSIVE TrimEnd(_)
TrimEnd(t) ==
    IF t # <<>> /\ t[Len(t)] \in Whitespace THEN TrimEnd(SubSeq(t, 1, Len(t) - 1)) ELSE t

Trim(t) == TrimEnd(TrimStart(t))

InBaseDir(p) ==
    /\ Len(p) > Len(default_file_path) + 1
    /\ SubSeq(p, 1, Len(default_file_path)) = default_file_path
    /\ p[Len(default_file_path) + 1] = "/"

\* the first organization in sorted key order
FirstSortedOrg == OrgNames[CHOOSE i \in OrgIndex :
                             /\ OrgNames[i] \in DOMAIN Orgs
                             /\ \A j \in OrgIndex : OrgNames[j] \in DOMAIN Orgs => i <= j]

(* ------------------------------ C1 ------------------------------------- *)

\* C1: when the helper cannot be spawned, read_infinyon_token reports exactly
\* what the Legacy Resolver gives on the default base directory (the legacy
\* token, or the resolver's own error), and never the helper's execution error.
C1_SpawnFailureGivesLegacyOutcome ==
    (IsToken /\ helper.exec = "spawn_err") =>
        /\ last.out = LegacyToken
        /\ last.out.msg # ExecMsg
        /\ ~last.spawned

C1_Witness ==
    /\ IsToken /\ helper.exec = "spawn_err"
    /\ NamedParses
    /\ last.out = Ok("t1", "")

(* ------------------------------ C2 ------------------------------------- *)

\* C2 as stated: when the helper runs and reports no organizations,
\* read_infinyon_token still consults the Legacy Resolver and returns its outcome.
C2_FallbackOnEmptyOrgs ==
    (IsToken /\ HelperDoc /\ DOMAIN Orgs = {}) =>
        /\ last.out = LegacyToken
        /\ InSeq(CurrentPath, last.reads)

\* C2 amended: read_infinyon_token consults the Legacy Resolver exactly when
\* the helper cannot be executed; when the helper runs and reports no
\* organizations the call reads no legacy file and panics, also when a valid
\* legacy profile exists.
C2_FallbackOnlyOnExecutionFailure ==
    IsToken =>
        /\ InSeq(CurrentPath, last.reads) <=> helper.exec = "spawn_err"
        /\ (HelperDoc /\ DOMAIN Orgs = {}) => (last.out.tag = "Panic" /\ last.reads = <<>>)

C2_Witness ==
    /\ IsToken /\ HelperDoc /\ DOMAIN Orgs = {}
    /\ LegacyToken.tag = "Ok"
    /\ last.out.tag = "Panic"
    /\ last.reads = <<>>

(* ------------------------------ C3 ------------------------------------- *)

\* C3: with an empty organization map token selection never succeeds: the call
\* ends in the panic that tells the user to log in or switch organization; and
\* every token obtained from the helper is the value of a key of the map.
C3_EmptyOrgsFailLoudly ==
    (IsToken /\ HelperDoc) =>
        /\ DOMAIN Orgs = {} => last.out = Panic(NoOrgMsg)
        /\ last.out.tag = "Ok" => \E k \in DOMAIN Orgs : last.out.token = Orgs[k]

C3_Witness ==
    /\ IsToken /\ HelperDoc /\ DOMAIN Orgs = {}
    /\ last.out = Panic(NoOrgMsg)
    /\ last.spawned

(* ------------------------------ C4 ------------------------------------- *)

\* C4: a helper that was spawned but exited non-zero, or whose output is
\* missing or unparsable, makes read_access_tokens return the Read error, and
\* read_infinyon_token then gives the Legacy Resolver's outcome.
C4_HelperFailureIsRecoverable ==
    (HelperRan /\ (helper.status # 0 \/ ~JsonParses(helper.stdout))) =>
        /\ IsAccess => last.out.tag = "Read"
        /\ IsToken => last.out = LegacyToken

(* ------------------------------ C5 ------------------------------------- *)

\* C5: with the override naming a valid credential file,
\* read_infinyon_token_rem returns that file's (token, remote) and reads that
\* file only: not the `current` pointer, not a record of the default directory.
C5_OverrideWins ==
    (IsRem /\ OverrideValid) =>
        /\ last.out = Ok(ValueOf(fs[envvar.path], "token"), ValueOf(fs[envvar.path], "remote"))
        /\ last.reads = <<envvar.path>>
        /\ ~InSeq(CurrentPath, last.reads)

C5_Witness ==
    /\ IsRem /\ OverrideValid /\ envvar.path = OutsidePath
    /\ LegacyTokenRem.tag = "Ok"
    /\ LegacyTokenRem # last.out
    /\ last.out = Ok("t3", "r3")

(* ------------------------------ C6 ------------------------------------- *)

\* C6: read_infinyon_token_rem never spawns the helper; with the override
\* unset (or not unicode) its outcome is the Legacy Resolver's on the default
\* base directory, with the override set it is that file's load.
C6_RemNeverUsesHelper ==
    IsRem =>
        /\ ~last.spawned
        /\ ~OverrideSet => last.out = LegacyTokenRem
        /\ OverrideSet => last.out = TokenRemOf(Credentials_load(fs, envvar.path)).out

\* the two operations give different tokens in one environment
C6_Witness ==
    /\ IsRem /\ last.out.tag = "Ok" /\ ~last.spawned
    /\ prev.op = "read_infinyon_token" /\ prev.spawned /\ prev.out.tag = "Ok"
    /\ prev.out.token # last.out.token

(* ------------------------------ C7 ------------------------------------- *)

\* C7: the Legacy Resolver fails with Read when the pointer file is absent,
\* with Read when the pointer names a file that does not exist, with Parse only
\* when both files are readable and the record is malformed, and returns the
\* record only when both reads and the parse succeed.
C7_LegacyFailureKinds ==
    (IsV3 \/ (IsRem /\ ~OverrideSet)) =>
        /\ ~PointerExists => (last.out.tag = "Read" /\ last.out.msg = ReadMsg)
        /\ (PointerExists /\ ~NamedExists) => (last.out.tag = "Read" /\ last.out.msg = ReadMsg)
        /\ last.out.tag = "Parse" <=> (NamedExists /\ ~NamedParses)
        /\ last.out.tag = "Ok" <=> NamedParses
        /\ last.out.tag = "Ok" => last.out.token = ValueOf(fs[NamedPath], "token")

C7_Witness ==
    /\ IsV3
    /\ PointerExists /\ ~NamedExists
    /\ last.out = ErrRead(ReadMsg)

(* ------------------------------ C8 ------------------------------------- *)

\* a text that is one bare filename
IsFilename(t) == Len(t) = 1 /\ t[1] \notin Whitespace \cup {"/"}

\* C8: the pointer text is trimmed before it is joined onto the base
\* directory: a pointer whose content is a filename surrounded by whitespace
\* resolves to the record the bare filename names, a file of the base directory.
C8_PointerIsTrimmed ==
    (IsV3 /\ PointerExists /\ IsFilename(Trim(fs[CurrentPath]))) =>
        /\ last.out = TokenOf(Credentials_load(fs, Join(default_file_path, Trim(fs[CurrentPath])))).out
        /\ last.reads = <<CurrentPath, Join(default_file_path, Trim(fs[CurrentPath]))>>
        /\ InBaseDir(last.reads[2])

(* ------------------------------ C9 ------------------------------------- *)

\* C9: for a non-empty organization map read_infinyon_token returns the token
\* of the first key in sorted order, so two resolutions over the same helper
\* output return the same token.
C9_SelectionIsDeterministic ==
    (IsToken /\ HelperDoc /\ DOMAIN Orgs # {}) =>
        /\ last.out = Ok(Orgs[FirstSortedOrg], "")
        /\ prev.op = "read_infinyon_token" => prev.out = last.out

(* ------------------------------ C10 ------------------------------------ *)

\* C10: in read_infinyon_token_rem a set override is terminal: an unreadable
\* file gives Read, an unparsable one Parse, and the Legacy Resolver is not
\* consulted; it is consulted only when the variable is unset or not unicode.
C10_OverrideIsTerminal ==
    IsRem =>
        /\ (OverrideSet /\ ~OverrideExists) => last.out = ErrRead(ReadMsg)
        /\ (OverrideExists /\ ~OverrideValid) => last.out = ErrParse
        /\ OverrideSet => last.reads = <<envvar.path>>
        /\ InSeq(CurrentPath, last.reads) <=> ~OverrideSet

C10_Witness ==
    /\ IsRem /\ OverrideExists /\ ~OverrideValid
    /\ LegacyTokenRem.tag = "Ok"
    /\ last.out = ErrParse
    /\ last.reads = <<envvar.path>>

====
